---- MODULE Spec2Model ----
(***************************************************************************)
(* A model of odoorpc's Environment (src/odoorpc/env.py): the model-proxy  *)
(* registry and the classes it generates, the set of dirty records,        *)
(* commit(), invalidate(), ref, user, lang and derived environments; and   *)
(* of the report service (src/odoorpc/service/report.py).                  *)
(*                                                                         *)
(* Objects that the code aliases (the registry dict and the dirty set of   *)
(* an Environment, the pending-writes buffer of records iterated from one  *)
(* recordset) are kept in heaps and named by references, so that sharing   *)
(* and copying are different things in the model as they are in Python.    *)
(*                                                                         *)
(* Every action is one whole call of a public operation.  The variables    *)
(* op, rpc, err and ret record the latest call: what it was, the remote    *)
(* calls it issued through the transport (in order), whether it raised,    *)
(* and what it returned.  The lookup is also modelled statement by         *)
(* statement, for callers on two threads.                                  *)
(***************************************************************************)
EXTENDS Integers, Sequences, FiniteSets, TLC

(***************************************************************************)
(* Bounds and the small universe the inputs are drawn from.                *)
(***************************************************************************)
MaxEnvs == 3        \* environments alive at once (the root and derived)
MaxProxies == 3     \* proxy classes generated in one session
MaxStage == 3       \* field assignments made in one session
MaxEnvsShared == 2  \* environments alive at once, where records are staged
MaxStageShared == 1 \* field assignments, where environments are derived
MaxSchemaFields == 3 \* fields in a schema that fields_get returns
MaxReports == 3     \* report rows the server holds

Models == {"res.users", "res.partner"}
\* What a caller passes to environment(context).
ContextArgs == {"None", "ctx1"}
\* The columns of each model's proxy.
Columns(model) == IF model = "res.partner" THEN {"name", "email"} ELSE {"name"}
Values == {1, 2}

\* Record handles the caller holds.  r1 and r2 are partners iterated from
\* one recordset and share its buffers; r3 is a user browsed on its own.
Recs == {"r1", "r2", "r3"}

RecId(r) == CASE r = "r1" -> 1 [] r = "r2" -> 2 [] OTHER -> 3

RecBuf(r) == IF r \in {"r1", "r2"} THEN "b1" ELSE "b2"

RecModel(r) == IF r \in {"r1", "r2"} THEN "res.partner" ELSE "res.users"

BufModel(b) == IF b = "b1" THEN "res.partner" ELSE "res.users"

\* The ids of the records that use a buffer.
BufIds(b) == IF b = "b1" THEN {1, 2} ELSE {3}

Bufs == {RecBuf(r) : r \in Recs}

\* The value a field holds in the authoritative cache before any store.
Loaded == 0

NoProxy == 0

EmptyDict == [x \in {} |-> 0]

\* FIELDS_RESERVED: the names a proxy class keeps for itself.
FIELDS_RESERVED == {"id", "ids", "__odoo__", "__osv__", "__data__", "env"}

\* The field names a remote schema may carry.
FieldNames == FIELDS_RESERVED \cup {"name", "email"}

\* The data fields_get returns for a field.
CharData == [type |-> "char", string |-> "Label", readonly |-> FALSE]

\* field_data = {'type': 'text', 'string': 'Name', 'readonly': True}
SyntheticNameData == [type |-> "text", string |-> "Name", readonly |-> TRUE]

\* The schemas fields_get may return: a few fields, each with its data.  A
\* remote "name" may carry the very data of the synthetic one.
Schemas ==
    {s \in UNION {[S -> {CharData, SyntheticNameData}] :
                    S \in {T \in SUBSET FieldNames :
                             Cardinality(T) <= MaxSchemaFields}} :
       \A f \in DOMAIN s \ {"name"} : s[f] = CharData}

\* The schema the server holds for the models whose records the caller
\* browses.
ServerSchema(model) == [f \in Columns(model) \cup {"id"} |-> CharData]

VARIABLES
    envs,       \* Seq of Environment objects: db, uid, context, registry, dirty
    regHeap,    \* registry objects: ref -> (model name -> proxy), a dict
    dirtyHeap,  \* dirty-set objects: ref -> set of records
    nextProxy,  \* identity of the next proxy class that type() creates
    classes,    \* the proxy classes the registries hold: identity -> attrs
    towrite,    \* _values_to_write: buffer -> field -> (id -> staged value)
    values,     \* _values: buffer -> field -> id -> authoritative value
    nstaged,    \* field assignments made so far
    seen,       \* history: env -> model -> the proxies that lookups through
                \* the env returned since the model was last absent from
                \* the env's registry
    fetches,    \* history: registry -> model -> the fields_get calls issued
                \* to fill the entry since the model was last absent
    parent,     \* history: env -> the env it was derived from (0: the root)
    assigned,   \* history: record -> field -> the value last assigned, for
                \* the fields assigned since a write was last issued for
                \* the record
    stale,      \* history: the <<record, field>> assigned before the latest
                \* invalidate() and neither assigned nor sent since
    out,        \* what the latest ref, user, lang or report call returned
    thr,        \* the threads inside a lookup: position and locals
    via,        \* the environment through which a record was last staged,
                \* committed or invalidated
    arg,        \* the model name the latest lookup or deletion was given (for
                \* ref, the model resolved; for download, the report name)
    op, rpc, err, ret

vars == <<envs, regHeap, dirtyHeap, nextProxy, classes, towrite, values,
          nstaged, seen, fetches, parent, assigned, stale, out, thr,
          via, arg, op, rpc, err, ret>>

regVars == <<regHeap, nextProxy, classes, seen, fetches>>

extVars == <<out, thr>>

recVars == <<dirtyHeap, towrite, values, nstaged, assigned, stale, via>>

EnvIds == 1..Len(envs)

\* Environment.registry and Environment.dirty: the objects, not copies.
registry(e) == regHeap[envs[e]._registry]

dirty(e) == dirtyHeap[envs[e]._dirty]

NoSeen == [M \in Models |-> {}]

NoFetches == [M \in Models |-> 0]

\* No ref, user, lang or report call made yet.
NoOut == [kind |-> "none"]

\* The threads that may be inside a lookup at once.
Threads == {1, 2}

\* No thread inside a lookup: where each thread is, the model it looks up,
\* the class it built, what it returned, and whether the other thread was
\* inside a lookup at some time while it was.
NoThreads == [t \in Threads |->
                [pc |-> "idle", model |-> "", cls |-> NoProxy,
                 ret |-> NoProxy, raced |-> FALSE]]

\* fields.generate_field: the descriptor of a field, made from its data.
generate_field(name, field_data) ==
    [name |-> name, type |-> field_data.type, string |-> field_data.string,
     readonly |-> field_data.readonly]

\* "if field_name not in FIELDS_RESERVED" without the "env" entry of the
\* list.
ReservedButEnv(field_name) == field_name \in FIELDS_RESERVED \ {"env"}

\* "field_name not in FIELDS_RESERVED", negated
Reserved(field_name) == field_name \in FIELDS_RESERVED

\* The synthetic "name" put in whatever the schema holds.
LacksNameAlways(columns) == TRUE

\* 'name' not in attrs['_columns']
LacksName(columns) == "name" \notin DOMAIN columns

\* Environment._create_model_class, given what fields_get returned: the
\* name and the columns of the class (its back-references to the environment
\* and the connection are left out).
CreateModelClass(model, fields_get) ==
    LET columns == [f \in {x \in DOMAIN fields_get : ~Reserved(x)} |->
                      generate_field(f, fields_get[f])]
    IN [_name |-> model,
        _columns |-> IF LacksName(columns)
                     THEN [f \in DOMAIN columns \cup {"name"} |->
                             IF f = "name"
                             THEN generate_field("name", SyntheticNameData)
                             ELSE columns[f]]
                     ELSE columns]

\* Environment.__init__: a fresh registry dict and a fresh dirty set.
NewEnvironment(ref, db, uid, context) ==
    [_db |-> db, _uid |-> uid, _context |-> context,
     _registry |-> ref, _dirty |-> ref]

Init ==
    /\ envs = <<NewEnvironment(1, "db", 1, "ctx0")>>
    /\ regHeap = [r \in 1..MaxEnvs |-> EmptyDict]
    /\ dirtyHeap = [d \in 1..MaxEnvs |-> {}]
    /\ nextProxy = 1
    /\ classes = EmptyDict
    /\ out = NoOut
    /\ thr = NoThreads
    /\ towrite = [b \in Bufs |-> [f \in Columns(BufModel(b)) |-> EmptyDict]]
    /\ values = [b \in Bufs |-> [f \in Columns(BufModel(b)) |->
                                    [i \in BufIds(b) |-> Loaded]]]
    /\ nstaged = 0
    /\ seen = [e \in 1..MaxEnvs |-> NoSeen]
    /\ fetches = [r \in 1..MaxEnvs |-> NoFetches]
    /\ parent = <<0>>
    /\ assigned = [r \in Recs |-> EmptyDict]
    /\ stale = {}
    /\ op = "init"
    /\ arg = ""
    /\ via = 1
    /\ rpc = << >>
    /\ err = FALSE
    /\ ret = NoProxy

(***************************************************************************)
(* Remote calls, as the transport sees them.                               *)
(***************************************************************************)
Call(model, method, id, vals, ok) ==
    [model |-> model, method |-> method, id |-> id, vals |-> vals, ok |-> ok]

\* A fields_get call and, when it succeeds, the schema it returned.
FieldsGet(model, ok, reply) ==
    [model |-> model, method |-> "fields_get", id |-> 0, vals |-> EmptyDict,
     ok |-> ok, reply |-> IF ok THEN reply ELSE EmptyDict]

\* Dict helpers.
DictSet(d, k, v) == [x \in DOMAIN d \cup {k} |-> IF x = k THEN v ELSE d[x]]

DictDel(d, k) == [x \in DOMAIN d \ {k} |-> d[x]]

\* Environments whose registry is the very object env e uses.
SameRegistry(e) == {x \in 1..MaxEnvs :
                      x \in EnvIds /\ envs[x]._registry = envs[e]._registry}

(***************************************************************************)
(* Environment.__getitem__ and _create_model_class                         *)
(***************************************************************************)
\* The registry never consulted: every lookup regenerates the proxy.
CachedNever(reg, model) == FALSE

\* "model not in self.registry", negated
Cached(reg, model) == model \in DOMAIN reg

\* The history of a model forgotten for every environment that uses the
\* registry of e: the model is absent from it, or a fields_get failed.
Forget(e, models) ==
    /\ seen' = [x \in 1..MaxEnvs |->
                 IF x \in SameRegistry(e)
                 THEN [M \in Models |-> IF M \in models THEN {} ELSE seen[x][M]]
                 ELSE seen[x]]
    /\ fetches' = [fetches EXCEPT ![envs[e]._registry] =
                     [M \in Models |-> IF M \in models THEN 0 ELSE @[M]]]

\* The entry bound before the class is built: a failed fields_get leaves a
\* placeholder behind.
UnfilledPlaceholder(reg, model) == DictSet(reg, model, NoProxy)

\* self.registry[model] = self._create_model_class(model), when the right
\* side raises: the assignment never runs.
Unfilled(reg, model) == reg

\* Environment.__getitem__, called with the remote calls of the operation
\* so far in the log.
GetItem(e, model, fields_get, log) ==
    /\ IF Cached(registry(e), model)
       THEN /\ ret' = registry(e)[model]
            /\ rpc' = log
            /\ err' = FALSE
            /\ seen' = [seen EXCEPT ![e][model] = @ \cup {registry(e)[model]}]
            /\ UNCHANGED <<regHeap, nextProxy, classes, fetches>>
       ELSE \E ok \in BOOLEAN :
            /\ rpc' = Append(log, FieldsGet(model, ok, fields_get))
            /\ err' = ~ok
            /\ IF ok
               THEN /\ nextProxy <= MaxProxies
                    /\ nextProxy' = nextProxy + 1
                    /\ classes' = DictSet(classes, nextProxy,
                                 CreateModelClass(model, fields_get))
                    /\ regHeap' = [regHeap EXCEPT ![envs[e]._registry] =
                                      DictSet(@, model, nextProxy)]
                    /\ ret' = nextProxy
                    /\ seen' = [seen EXCEPT ![e][model] = @ \cup {nextProxy}]
                    /\ fetches' = [fetches EXCEPT
                                     ![envs[e]._registry][model] = @ + 1]
               ELSE /\ ret' = NoProxy
                    /\ regHeap' = [regHeap EXCEPT ![envs[e]._registry] =
                                      Unfilled(@, model)]
                    /\ Forget(e, {model})
                    /\ UNCHANGED <<nextProxy, classes>>

\* env[model], as an operation of its own.
LookupWith(e, model, fields_get) ==
    /\ op' = "lookup"
    /\ arg' = model
    /\ GetItem(e, model, fields_get, << >>)
    /\ UNCHANGED <<envs, parent, recVars, extVars>>

\* A lookup of a model whose records the caller browses.
Lookup(e, model) == LookupWith(e, model, ServerSchema(model))

\* The classes that some registry of the heap still holds.
Held(cls, heap) ==
    [p \in {q \in DOMAIN cls :
              \E r \in DOMAIN heap : \E M \in DOMAIN heap[r] : heap[r][M] = q}
       |-> cls[p]]

\* The del statement leaves the entry in place.
DeletedNot(reg, model) == reg

\* del env.registry[model], on the dict
Deleted(reg, model) == DictDel(reg, model)

\* del env.registry[model]
Evict(e, model) ==
    /\ model \in DOMAIN registry(e)
    /\ regHeap' = [regHeap EXCEPT ![envs[e]._registry] = Deleted(@, model)]
    /\ classes' = Held(classes, regHeap')
    /\ Forget(e, {model})
    /\ op' = "evict"
    /\ arg' = model
    /\ rpc' = << >>
    /\ err' = FALSE
    /\ ret' = NoProxy
    /\ UNCHANGED <<envs, parent, nextProxy, recVars, extVars>>

\* env.registry.clear()
Clear(e) ==
    /\ DOMAIN registry(e) # {}
    /\ regHeap' = [regHeap EXCEPT ![envs[e]._registry] = EmptyDict]
    /\ classes' = Held(classes, regHeap')
    /\ Forget(e, Models)
    /\ op' = "clear"
    /\ arg' = ""
    /\ rpc' = << >>
    /\ err' = FALSE
    /\ ret' = NoProxy
    /\ UNCHANGED <<envs, parent, nextProxy, recVars, extVars>>

(***************************************************************************)
(* Environment.__call__                                                    *)
(***************************************************************************)
\* "env._dirty = self._dirty" forgotten: the derived environment keeps the
\* WeakSet its constructor made.
DerivedDirtyOwn(self, new) == new

\* env._dirty = self._dirty
DerivedDirty(self, new) == envs[self]._dirty

\* "env._registry = self._registry" forgotten: the derived environment
\* keeps the dict its constructor made.
DerivedRegistryOwn(self, new) == new

\* env._registry = self._registry
DerivedRegistry(self, new) == envs[self]._registry

\* context = self.context if context is None else context
DerivedContext(self, context) ==
    IF context = "None" THEN envs[self]._context ELSE context

Derive(e, context) ==
    /\ LET new == Len(envs) + 1
           env == [NewEnvironment(new, envs[e]._db, envs[e]._uid,
                                  DerivedContext(e, context))
                     EXCEPT !._dirty = DerivedDirty(e, new),
                            !._registry = DerivedRegistry(e, new)]
       IN /\ envs' = Append(envs, env)
          /\ parent' = Append(parent, e)
          /\ ret' = new
    /\ op' = "derive"
    /\ arg' = ""
    /\ rpc' = << >>
    /\ err' = FALSE
    /\ UNCHANGED <<regVars, recVars, extVars>>

(***************************************************************************)
(* Field assignment on a record (the descriptor's write): the value is     *)
(* staged in the record's buffer under the record's id and the record is   *)
(* added to the dirty set of its environment.  No remote call is made.     *)
(***************************************************************************)
Stage(e, r, f, v) ==
    /\ nstaged' = nstaged + 1
    /\ towrite' = [towrite EXCEPT ![RecBuf(r)][f] = DictSet(@, RecId(r), v)]
    /\ dirtyHeap' = [dirtyHeap EXCEPT ![envs[e]._dirty] = @ \cup {r}]
    /\ op' = "stage"
    /\ arg' = ""
    /\ via' = e
    /\ rpc' = << >>
    /\ err' = FALSE
    /\ ret' = NoProxy
    /\ assigned' = [assigned EXCEPT ![r] = DictSet(@, f, v)]
    /\ stale' = stale \ {<<r, f>>}
    /\ UNCHANGED <<envs, parent, regVars, values, extVars>>

(***************************************************************************)
(* Environment.commit                                                      *)
(***************************************************************************)
\* The fields of the record's buffer that hold a value under the record's
\* own id: "if record.id in record._values_to_write[field]".
StagedFields(tw, r) ==
    {f \in DOMAIN tw[RecBuf(r)] : RecId(r) \in DOMAIN tw[RecBuf(r)][f]}

\* The values dict built for one record.
StagedValues(tw, r) ==
    [f \in StagedFields(tw, r) |-> tw[RecBuf(r)][f][RecId(r)]]

\* No pop: the staged values stay in the buffer.
PopStagedKeep(tw, r) == tw

\* The field's whole dict emptied instead of the record's entry popped.
PopStagedAll(tw, r) ==
    [tw EXCEPT ![RecBuf(r)] =
        [f \in DOMAIN tw[RecBuf(r)] |-> IF f \in StagedFields(tw, r)
                          THEN EmptyDict ELSE tw[RecBuf(r)][f]]]

\* record._values_to_write[field].pop(record.id), for every staged field
PopStaged(tw, r) ==
    [tw EXCEPT ![RecBuf(r)] =
        [f \in DOMAIN tw[RecBuf(r)] |-> IF f \in StagedFields(tw, r)
                          THEN DictDel(tw[RecBuf(r)][f], RecId(r))
                          ELSE tw[RecBuf(r)][f]]]

\* The descriptor's store, for every staged field: the value becomes the
\* record's authoritative cached value.
StoreValues(vl, r, vals) ==
    [vl EXCEPT ![RecBuf(r)] =
        [f \in DOMAIN vl[RecBuf(r)] |-> IF f \in DOMAIN vals
                          THEN [vl[RecBuf(r)][f] EXCEPT ![RecId(r)] = vals[f]]
                          ELSE vl[RecBuf(r)][f]]]

\* A failing write swallowed: the loop goes on.
RaisesNever(ok) == FALSE

\* record.write(values) raises when the remote call fails, which ends the
\* loop and commit().
Raises(ok) == ~ok

\* The body of the loop for one record; ok tells whether its remote write
\* succeeds.
CommitRecord(st, r, ok) ==
    LET vals == StagedValues(st.towrite, r)
    IN [towrite |-> PopStaged(st.towrite, r),
        values |-> StoreValues(st.values, r, vals),
        rpc |-> Append(st.rpc, Call(RecModel(r), "write", RecId(r), vals, ok)),
        err |-> Raises(ok),
        dirty |-> IF Raises(ok) THEN st.dirty ELSE st.dirty \ {r}]

\* The loop over the snapshot, from its i-th record on; the failAt-th
\* write fails (0: none does).
RECURSIVE CommitLoop(_, _, _, _)
CommitLoop(st, order, i, failAt) ==
    IF i > Len(order) THEN st
    ELSE LET next == CommitRecord(st, order[i], i # failAt)
         IN IF next.err THEN next
            ELSE CommitLoop(next, order, i + 1, failAt)

\* The records a log of remote calls holds a write call for.
Written(log) ==
    {r \in Recs : \E i \in DOMAIN log : /\ log[i].method = "write"
                                        /\ log[i].model = RecModel(r)
                                        /\ log[i].id = RecId(r)}

\* The orders in which "for record in set(self.dirty)" can visit a set.
Orders(S) ==
    {o \in [1..Cardinality(S) -> S] : \A i, j \in DOMAIN o :
                                          i # j => o[i] # o[j]}

Commit(e) ==
    /\ \E order \in Orders(dirty(e)) : \E failAt \in 0..Len(order) :
       \E st \in {CommitLoop([towrite |-> towrite, values |-> values,
                               rpc |-> << >>, err |-> FALSE,
                               dirty |-> dirty(e)], order, 1, failAt)} :
       \E written \in {Written(st.rpc)} :
            /\ towrite' = st.towrite
            /\ values' = st.values
            /\ dirtyHeap' = [dirtyHeap EXCEPT ![envs[e]._dirty] = st.dirty]
            /\ rpc' = st.rpc
            /\ err' = st.err
            /\ assigned' = [r \in Recs |-> IF r \in written
                                            THEN EmptyDict ELSE assigned[r]]
            /\ stale' = {c \in stale : c[1] \notin written}
    /\ op' = "commit"
    /\ arg' = ""
    /\ via' = e
    /\ ret' = NoProxy
    /\ UNCHANGED <<envs, parent, regVars, nstaged, extVars>>

(***************************************************************************)
(* Environment.invalidate                                                  *)
(***************************************************************************)
\* The dirty set left as it is.
ClearedNot(d) == d

\* self.dirty.clear()
Cleared(d) == {}

Invalidate(e) ==
    /\ dirtyHeap' = [dirtyHeap EXCEPT ![envs[e]._dirty] = Cleared(@)]
    /\ op' = "invalidate"
    /\ arg' = ""
    /\ via' = e
    /\ rpc' = << >>
    /\ err' = FALSE
    /\ ret' = NoProxy
    /\ stale' = stale \cup {c \in Recs \X {"name", "email"} :
                               c[2] \in DOMAIN assigned[c[1]]}
    /\ UNCHANGED <<envs, parent, regVars, towrite, values, nstaged, assigned,
                   extVars>>

(***************************************************************************)
(* Environment.__getitem__ of the root environment, statement by           *)
(* statement, for callers on different threads.  The log rpc accumulates   *)
(* the remote calls of all of them.                                        *)
(***************************************************************************)
Inside(t) == thr[t].pc \in {"check", "create", "store", "return"}

\* The steps of a thread leave the records and the environments alone.
ThreadFrame(t, model) ==
    /\ op' = "getitem"
    /\ arg' = model
    /\ UNCHANGED <<envs, parent, recVars, out>>

\* The call starts.
Enter(t, model) ==
    /\ thr[t].pc = "idle"
    /\ thr' = [u \in Threads |->
                 IF u = t
                 THEN [thr[u] EXCEPT !.pc = "check", !.model = model,
                                     !.raced = \E v \in Threads \ {t} :
                                                  Inside(v)]
                 ELSE [thr[u] EXCEPT !.raced = @ \/ Inside(u)]]
    /\ rpc' = rpc
    /\ err' = FALSE
    /\ ret' = NoProxy
    /\ UNCHANGED regVars
    /\ ThreadFrame(t, model)

\* if model not in self.registry:
Check(t) ==
    /\ thr[t].pc = "check"
    /\ thr' = [thr EXCEPT ![t].pc =
                 IF Cached(registry(1), thr[t].model) THEN "return"
                 ELSE "create"]
    /\ rpc' = rpc
    /\ err' = FALSE
    /\ ret' = NoProxy
    /\ UNCHANGED regVars
    /\ ThreadFrame(t, thr[t].model)

\* self._create_model_class(model), the right side of the assignment: the
\* class exists, nothing refers to it but the thread.
Create(t) ==
    /\ thr[t].pc = "create"
    /\ \E ok \in BOOLEAN :
        /\ rpc' = Append(rpc, FieldsGet(thr[t].model, ok,
                                        ServerSchema(thr[t].model)))
        /\ err' = ~ok
        /\ IF ok
           THEN /\ nextProxy <= MaxProxies
                /\ nextProxy' = nextProxy + 1
                /\ thr' = [thr EXCEPT ![t].pc = "store",
                                      ![t].cls = nextProxy]
                /\ fetches' = [fetches EXCEPT ![1][thr[t].model] = @ + 1]
           ELSE /\ thr' = [thr EXCEPT ![t].pc = "raised"]
                /\ UNCHANGED <<nextProxy, fetches>>
    /\ ret' = NoProxy
    /\ UNCHANGED <<regHeap, classes, seen>>
    /\ ThreadFrame(t, thr[t].model)

\* dict.setdefault: an entry already there is kept.
StoredIfAbsent(reg, model, cls) ==
    IF model \in DOMAIN reg THEN reg ELSE DictSet(reg, model, cls)

\* self.registry[model] = cls
Stored(reg, model, cls) == DictSet(reg, model, cls)

\* The assignment itself.
Store(t) ==
    /\ thr[t].pc = "store"
    /\ regHeap' = [regHeap EXCEPT ![envs[1]._registry] =
                      Stored(@, thr[t].model, thr[t].cls)]
    /\ classes' = Held(DictSet(classes, thr[t].cls,
                               CreateModelClass(thr[t].model,
                                                ServerSchema(thr[t].model))),
                       regHeap')
    /\ thr' = [thr EXCEPT ![t].pc = "return"]
    /\ rpc' = rpc
    /\ err' = FALSE
    /\ ret' = NoProxy
    /\ UNCHANGED <<nextProxy, seen, fetches>>
    /\ ThreadFrame(t, thr[t].model)

\* return self.registry[model]
Return(t) ==
    /\ thr[t].pc = "return"
    /\ thr' = [thr EXCEPT ![t].pc = "done",
                          ![t].ret = registry(1)[thr[t].model]]
    /\ seen' = [seen EXCEPT ![1][thr[t].model] =
                  @ \cup {registry(1)[thr[t].model]}]
    /\ rpc' = rpc
    /\ err' = FALSE
    /\ ret' = registry(1)[thr[t].model]
    /\ UNCHANGED <<regHeap, nextProxy, classes, fetches>>
    /\ ThreadFrame(t, thr[t].model)

(***************************************************************************)
(* Environment.ref, Environment.user and Environment.lang                  *)
(***************************************************************************)
XmlIds == {"base.user_root", "base.main_partner"}

\* The ids xmlid_to_res_model_res_id may resolve to.
Ids == {1, 2}

\* No record: the call raised.
NoRecord == [proxy |-> NoProxy, id |-> 0]

\* Model.browse: a record of the proxy class for the id.
browse(proxy, id) == [proxy |-> proxy, id |-> id]

\* The browse made although the lookup raised.
BrowsedAnyway(raised, proxy, id) == browse(proxy, id)

\* "return self[model].browse(id_)": no browse when self[model] raised.
Browsed(raised, proxy, id) == IF raised THEN NoRecord ELSE browse(proxy, id)

\* The xmlid_to_res_model_res_id call.
XmlIdCall(ok) ==
    Call("ir.model.data", "xmlid_to_res_model_res_id", 0, EmptyDict, ok)

Ref(e, xml_id) ==
    \E ok \in BOOLEAN :
    \E model \in IF ok THEN Models ELSE {""} :
    \E id_ \in IF ok THEN Ids ELSE {0} :
        /\ op' = "ref"
        /\ arg' = model
        /\ IF ok
           THEN /\ GetItem(e, model, ServerSchema(model), <<XmlIdCall(ok)>>)
                /\ out' = [kind |-> "ref", xml_id |-> xml_id,
                           record |-> Browsed(err', ret', id_)]
           ELSE /\ rpc' = <<XmlIdCall(ok)>>
                /\ err' = TRUE
                /\ ret' = NoProxy
                /\ out' = [kind |-> "ref", xml_id |-> xml_id,
                           record |-> NoRecord]
                /\ UNCHANGED regVars
        /\ UNCHANGED <<envs, parent, recVars, thr>>

User(e) ==
    /\ op' = "user"
    /\ arg' = "res.users"
    /\ GetItem(e, "res.users", ServerSchema("res.users"), << >>)
    /\ out' = [kind |-> "user",
               record |-> Browsed(err', ret', envs[e]._uid)]
    /\ UNCHANGED <<envs, parent, recVars, thr>>

\* The value context.get('lang', False) falls back to.
False == "<false>"

\* context.get('lang', False): the root context names a language, the
\* context a caller passes does not.
ContextLang(context) == IF context = "ctx0" THEN "fr_FR" ELSE False

Lang(e) ==
    /\ op' = "lang"
    /\ arg' = ""
    /\ rpc' = << >>
    /\ err' = FALSE
    /\ ret' = NoProxy
    /\ out' = [kind |-> "lang", lang |-> ContextLang(envs[e]._context)]
    /\ UNCHANGED <<envs, parent, regVars, recVars, thr>>

(***************************************************************************)
(* Report (src/odoorpc/service/report.py)                                  *)
(***************************************************************************)
\* JSON null, as a payload.
None == "<null>"

\* The inner "result" payloads a render_report response may carry: null,
\* the empty string, and base64 text.
Payloads == {None, "", "QQ==", "QUI="}

\* The responses the transport may hand back for render_report: no
\* "result" key, a "result" without an inner "result", and a "result" with
\* an inner payload.
Responses ==
    {EmptyDict, [result |-> EmptyDict]}
        \cup {[result |-> [result |-> p]] : p \in Payloads}

ReportNames == {"sale.report_saleorder", "account.report_invoice"}

\* base64.standard_b64decode, on the payloads above.
standard_b64decode(text) ==
    CASE text = "QQ==" -> "A"
      [] text = "QUI=" -> "AB"
      [] OTHER -> ""

\* What a call ended with: an exception raised, or a value returned.
Raised(exc) == [raised |-> exc, content |-> ""]

Returned(content) == [raised |-> "", content |-> content]

\* if 'result' not in data and not data['result'].get('result'):
\* the right operand is evaluated only when the left one is true, and then
\* data['result'] raises KeyError.
InvalidData(data) ==
    IF "result" \notin DOMAIN data
    THEN Raised("KeyError")
    ELSE Returned("False")

\* Report.download from the response on: the test of line 91, then
\* encode2bytes, standard_b64decode and io.BytesIO.
Downloaded(data) ==
    LET test == InvalidData(data)
    IN IF test.raised # "" THEN test
       ELSE IF test.content = "True" THEN Raised("ValueError")
       ELSE IF "result" \notin DOMAIN data.result THEN Raised("KeyError")
       ELSE IF data.result.result = None THEN Raised("TypeError")
       ELSE Returned(standard_b64decode(data.result.result))

Download(name) ==
    \E ok \in BOOLEAN, data \in Responses :
        LET end == IF ok THEN Downloaded(data) ELSE Raised("RPCError")
        IN /\ op' = "download"
           /\ arg' = name
           /\ rpc' = <<Call("report", "render_report", 0, EmptyDict, ok)>>
           /\ err' = (end.raised # "")
           /\ ret' = NoProxy
           /\ out' = [kind |-> "download",
                      data |-> IF ok THEN data ELSE EmptyDict,
                      raised |-> end.raised, content |-> end.content]
           /\ UNCHANGED <<envs, parent, regVars, recVars, thr>>

\* The model Report.list reads, and its schema.
ReportModel == "ir.actions.report.xml"

ReportFields == {"name", "model", "report_name", "report_type"}

ReportSchema == [f \in ReportFields \cup {"id"} |-> CharData]

\* The models reports are made for.
ReportedModels == {"sale.order", "account.invoice"}

\* A row that read() returns for a report.
ReportRow(id, model) ==
    [id |-> id, model |-> model,
     name |-> IF id = 1 THEN "Orders" ELSE "Documents",
     report_name |-> IF id = 1 THEN "sale.report_saleorder"
                     ELSE "account.report_invoice",
     report_type |-> "qweb-pdf"]

\* What read() may return: rows of different reports, in any order.
ReportRows ==
    {rows \in UNION {[1..n -> {ReportRow(id, M) : id \in 1..MaxReports,
                                                  M \in ReportedModels}]
                       : n \in 0..MaxReports} :
        \A i, j \in DOMAIN rows : i # j => rows[i].id # rows[j].id}

\* "result[model] = [report]": the row replaces the rows listed before it.
AppendedAlone(list, report) == <<report>>

\* result[model].append(report)
Appended(list, report) == Append(list, report)

\* The loop of Report.list from row i on.
RECURSIVE Classify(_, _, _)
Classify(reports, i, result) ==
    IF i > Len(reports) THEN result
    ELSE LET model == reports[i].model
             report == [k \in DOMAIN reports[i] \ {"model", "id"} |->
                          reports[i][k]]
             list == IF model \notin DOMAIN result THEN << >>
                     ELSE result[model]
         IN Classify(reports, i + 1,
                     DictSet(result, model, Appended(list, report)))

\* Report.list through the root environment: the lookup of the report
\* model, search([]) and read(), each of which may fail.
List ==
    \E failed \in {"", "fields_get", "search", "read"} :
    \E reports \in IF failed = "" THEN ReportRows ELSE {<< >>} :
        LET hit == Cached(registry(1), ReportModel)
            okSchema == failed # "fields_get"
            okSearch == failed # "search"
            okRead == failed # "read"
            built == hit \/ okSchema
            log1 == IF hit THEN << >>
                    ELSE <<FieldsGet(ReportModel, okSchema, ReportSchema)>>
            log2 == IF built
                    THEN Append(log1, Call(ReportModel, "search", 0,
                                           EmptyDict, okSearch))
                    ELSE log1
            log3 == IF built /\ okSearch
                    THEN Append(log2, Call(ReportModel, "read", 0,
                                           EmptyDict, okRead))
                    ELSE log2
            done == built /\ okSearch /\ okRead
        IN /\ failed = "fields_get" => ~hit
           /\ op' = "list"
           /\ arg' = ""
           /\ rpc' = log3
           /\ err' = ~done
           /\ ret' = NoProxy
           /\ IF ~hit /\ okSchema
              THEN /\ nextProxy <= MaxProxies
                   /\ nextProxy' = nextProxy + 1
                   /\ classes' = DictSet(classes, nextProxy,
                                   CreateModelClass(ReportModel, ReportSchema))
                   /\ regHeap' = [regHeap EXCEPT ![envs[1]._registry] =
                                     DictSet(@, ReportModel, nextProxy)]
              ELSE UNCHANGED <<regHeap, nextProxy, classes>>
           /\ out' = [kind |-> "list",
                      reports |-> IF done THEN reports ELSE << >>,
                      result |-> IF done THEN Classify(reports, 1, EmptyDict)
                                 ELSE EmptyDict]
           /\ UNCHANGED <<envs, parent, seen, fetches, recVars, thr>>

(***************************************************************************)
(* Specifications                                                          *)
(***************************************************************************)
DoLookup == \E e \in EnvIds, model \in Models : Lookup(e, model)

DoEvict == \E e \in EnvIds, model \in Models : Evict(e, model)

DoClear == \E e \in EnvIds : Clear(e)

AnyDerive == \E e \in EnvIds, c \in ContextArgs : Derive(e, c)

DoDerive == Len(envs) < MaxEnvs /\ AnyDerive

DoDeriveFew == Len(envs) < MaxEnvsShared /\ AnyDerive

AnyStage == \E e \in EnvIds, r \in Recs, v \in Values :
              \E f \in Columns(RecModel(r)) : Stage(e, r, f, v)

DoStage == nstaged < MaxStage /\ AnyStage

DoStageFew == nstaged < MaxStageShared /\ AnyStage

DoCommit == \E e \in EnvIds : Commit(e)

DoInvalidate == \E e \in EnvIds : Invalidate(e)

\* The registry side alone: lookups, evictions and derived environments.
NextRegistry ==
    \/ DoLookup
    \/ DoEvict
    \/ DoClear
    \/ DoDerive

SpecRegistry == Init /\ [][NextRegistry]_vars

\* A lookup of a model, whatever schema the server holds for it.
DoLookupAny == \E model \in Models, fields_get \in Schemas :
                 LookupWith(1, model, fields_get)

\* The registry of the root environment, over every schema the server may
\* hold.
NextSchema ==
    \/ DoLookupAny
    \/ DoEvict
    \/ DoClear

SpecSchema == Init /\ [][NextSchema]_vars

\* The state once the caller has looked up both models through the root
\* environment and browsed the records.
InitRecords ==
    /\ envs = <<NewEnvironment(1, "db", 1, "ctx0")>>
    /\ regHeap = [r \in 1..MaxEnvs |->
                    IF r = 1 THEN [M \in Models |-> IF M = "res.partner"
                                                     THEN 1 ELSE 2]
                    ELSE EmptyDict]
    /\ dirtyHeap = [d \in 1..MaxEnvs |-> {}]
    /\ nextProxy = 3
    /\ classes = [p \in {1, 2} |->
                    IF p = 1
                    THEN CreateModelClass("res.partner",
                                          ServerSchema("res.partner"))
                    ELSE CreateModelClass("res.users",
                                          ServerSchema("res.users"))]
    /\ out = NoOut
    /\ thr = NoThreads
    /\ towrite = [b \in Bufs |-> [f \in Columns(BufModel(b)) |-> EmptyDict]]
    /\ values = [b \in Bufs |-> [f \in Columns(BufModel(b)) |->
                                    [i \in BufIds(b) |-> Loaded]]]
    /\ nstaged = 0
    /\ seen = [e \in 1..MaxEnvs |->
                 IF e = 1 THEN [M \in Models |-> {regHeap[1][M]}] ELSE NoSeen]
    /\ fetches = [r \in 1..MaxEnvs |->
                    IF r = 1 THEN [M \in Models |-> 1] ELSE NoFetches]
    /\ parent = <<0>>
    /\ assigned = [r \in Recs |-> EmptyDict]
    /\ stale = {}
    /\ op = "init"
    /\ arg = ""
    /\ via = 1
    /\ rpc = << >>
    /\ err = FALSE
    /\ ret = NoProxy

\* The record side alone, in one environment: staging, commit and
\* invalidate.
NextRecords ==
    \/ DoStage
    \/ DoCommit
    \/ DoInvalidate

SpecRecords == InitRecords /\ [][NextRecords]_vars

\* The record side with derived environments.
NextShared ==
    \/ DoDeriveFew
    \/ DoStageFew
    \/ DoCommit
    \/ DoInvalidate

SpecShared == InitRecords /\ [][NextShared]_vars

\* One field of one record assigned, once.
DoStageOnce == nstaged = 0 /\ Stage(1, "r1", "name", 1)

DoRef == \E e \in EnvIds, xml_id \in XmlIds : Ref(e, xml_id)

DoLang == \E e \in EnvIds : Lang(e)

\* Resolving external ids through the root environment, next to lookups
\* and deletions.
NextRef ==
    \/ DoRef
    \/ DoLookup
    \/ DoEvict

SpecRef == Init /\ [][NextRef]_vars

\* The operations of the root environment.
RootLookup == \E model \in Models : Lookup(1, model)

RootEvict == \E model \in Models : Evict(1, model)

RootRef == \E xml_id \in XmlIds : Ref(1, xml_id)

\* Every operation of the root environment, from the state where both
\* models are cached, with a record staged or not and with environments
\* derived next to it.
NextFrame ==
    \/ RootLookup
    \/ RootEvict
    \/ RootRef
    \/ User(1)
    \/ DoLang
    \/ DoDeriveFew
    \/ DoStageOnce
    \/ Commit(1)
    \/ Invalidate(1)

SpecFrame == InitRecords /\ [][NextFrame]_vars

DoEnter == \E t \in Threads, model \in Models : Enter(t, model)

DoCheck == \E t \in Threads : Check(t)

DoCreate == \E t \in Threads : Create(t)

DoStore == \E t \in Threads : Store(t)

DoReturn == \E t \in Threads : Return(t)

\* Lookups through the root environment from two threads, interleaved
\* statement by statement.
NextThreads ==
    \/ DoEnter
    \/ DoCheck
    \/ DoCreate
    \/ DoStore
    \/ DoReturn

SpecThreads == Init /\ [][NextThreads]_vars

DoDownload == \E name \in ReportNames : Download(name)

\* The report service, with a record staged beforehand or not.
NextReport ==
    \/ DoStageOnce
    \/ DoDownload
    \/ List

SpecReport == InitRecords /\ [][NextReport]_vars

\* Every operation, from construction.
Next ==
    \/ DoLookup
    \/ DoEvict
    \/ DoClear
    \/ DoDerive
    \/ DoStage
    \/ DoCommit
    \/ DoInvalidate
    \/ DoRef
    \/ User(1)
    \/ DoLang
    \/ DoDownload
    \/ List

Spec == Init /\ [][Next]_vars

(***************************************************************************)
(* Properties                                                              *)
(***************************************************************************)
\* The staged values the buffer of a record holds under the record's id.
Pending(r) ==
    LET b == towrite[RecBuf(r)]
    IN [f \in {x \in DOMAIN b : RecId(r) \in DOMAIN b[x]} |-> b[f][RecId(r)]]

\* The positions of the write calls issued for a record in a log.
WritesOf(log, r) ==
    {i \in DOMAIN log : /\ log[i].method = "write"
                        /\ log[i].model = RecModel(r)
                        /\ log[i].id = RecId(r)}

\* The positions of the fields_get calls in a log.
SchemaCalls(log) == {i \in DOMAIN log : log[i].method = "fields_get"}

\* C1: as long as model M is not evicted and no schema call fails, every
\* lookup of M through one Environment returned the same proxy, and one
\* fields_get call was issued for M in all.
C1_IdentityStable ==
    \A e \in EnvIds, M \in Models :
        seen[e][M] # {} =>
            /\ Cardinality(seen[e][M]) = 1
            /\ fetches[envs[e]._registry][M] = 1

\* A lookup answered from the registry: the second or a later lookup of
\* its model.
C1_Witness ==
    /\ op = "lookup"
    /\ rpc = << >>
    /\ ~err
    /\ \E e \in EnvIds, M \in Models :
          /\ seen[e][M] = {ret}
          /\ M \in DOMAIN registry(e)
          /\ registry(e)[M] = ret

\* C9: at every moment an environment and all those derived from it see
\* the same dirty records (what is staged through one is dirty in every
\* other), and after invalidate() or a commit() that returned, called on
\* any of them, none of them sees a dirty record.
C9_SharedDirty ==
    /\ \A e1, e2 \in EnvIds : dirty(e1) = dirty(e2)
    /\ (op = "invalidate" \/ (op = "commit" /\ ~err)) =>
           \A e \in EnvIds : dirty(e) = {}

\* A record staged through the derived environment is dirty in the root.
C9_Witness ==
    /\ Len(envs) = 2
    /\ op = "stage"
    /\ via = 2
    /\ dirty(1) # {}
    /\ assigned # [r \in Recs |-> EmptyDict]

\* C10, in a state: all environments of a lineage have the same registry
\* entries; the lookups of a model through any of them returned one and
\* the same proxy, generated by one fields_get call in all.
C10_State ==
    /\ \A e1, e2 \in EnvIds : registry(e1) = registry(e2)
    /\ \A M \in Models :
         LET all == UNION {seen[e][M] : e \in EnvIds}
         IN all # {} =>
              /\ Cardinality(all) = 1
              /\ \A e \in EnvIds : M \in DOMAIN registry(e)
                                     /\ all = {registry(e)[M]}
              /\ \A e \in EnvIds : fetches[envs[e]._registry][M] = 1
              /\ Cardinality({envs[e]._registry : e \in EnvIds}) = 1

\* C10, in a step: an eviction through one environment removes the entry
\* for all of them, and deriving leaves the existing environments' context,
\* db and uid as they are.
C10_Step ==
    /\ \A e \in EnvIds :
         /\ envs'[e]._context = envs[e]._context
         /\ envs'[e]._db = envs[e]._db
         /\ envs'[e]._uid = envs[e]._uid
    /\ op' = "evict" =>
         \E M \in Models :
            /\ \A e \in EnvIds : M \in DOMAIN registry(e)
            /\ \A e \in EnvIds : M \notin DOMAIN regHeap'[envs'[e]._registry]
    /\ op' = "clear" =>
         \A e \in EnvIds : DOMAIN regHeap'[envs'[e]._registry] = {}

\* C10: a model name maps to at most one live proxy per lineage.
C10_OneProxyPerLineage == []C10_State /\ [][C10_Step]_vars

\* The root, an environment derived from it and one derived from that one
\* have each looked up the same model (the last without a schema call) and
\* the context of the derived ones differs from the root's.
C10_Witness ==
    /\ Len(envs) = 3
    /\ parent = <<0, 1, 2>>
    /\ envs[2]._context # envs[1]._context
    /\ op = "lookup"
    /\ rpc = << >>
    /\ \E M \in Models : /\ \A e \in 1..3 : seen[e][M] = {ret}
                         /\ fetches[envs[1]._registry][M] = 1

\* The values of the write call at position i of a log are those of the
\* dict d.
Carries(log, i, d) == log[i].vals = d

\* C2, in a step: when commit() returns, for every record that was dirty
\* with K >= 1 fields assigned since a write was last issued for it, one
\* write call was issued, carrying those K fields with the values last
\* assigned; the record is not dirty and its buffer holds no value under
\* its id.
C2_Step ==
    (op' = "commit" /\ ~err') =>
        \A r \in dirty(via') :
            DOMAIN assigned[r] # {} =>
                /\ Cardinality(WritesOf(rpc', r)) = 1
                /\ \A i \in WritesOf(rpc', r) : Carries(rpc', i, assigned[r])
                /\ r \notin dirtyHeap'[envs[via']._dirty]
                /\ \A f \in DOMAIN towrite'[RecBuf(r)] :
                       RecId(r) \notin DOMAIN towrite'[RecBuf(r)][f]

\* C2: K fields staged on one record cost one write call, which carries
\* all of them.
C2_OneWritePerRecord == [][C2_Step]_vars

\* A commit() that returned after one write call carrying two fields, one
\* of which had been assigned twice.
C2_Witness ==
    /\ op = "commit"
    /\ ~err
    /\ nstaged = 3
    /\ Len(rpc) = 1
    /\ DOMAIN rpc[1].vals = {"name", "email"}
    /\ dirty(1) = {}

\* C3, in a step: when n >= 2 records are dirty and every write succeeds,
\* commit() issues n write calls, one per dirty record, each carrying the
\* values staged under that record's id and no other; the values staged
\* under the id of a record that is not dirty stay in the buffer and are
\* not sent; no record is dirty afterwards.
C3_Step ==
    (op' = "commit" /\ ~err' /\ Cardinality(dirty(via')) >= 2) =>
        /\ Len(rpc') = Cardinality(dirty(via'))
        /\ \A r \in dirty(via') :
              /\ Cardinality(WritesOf(rpc', r)) = 1
              /\ \A i \in WritesOf(rpc', r) :
                    /\ rpc'[i].ok
                    /\ DOMAIN rpc'[i].vals =
                         {f \in DOMAIN towrite[RecBuf(r)] :
                            RecId(r) \in DOMAIN towrite[RecBuf(r)][f]}
                    /\ \A f \in DOMAIN rpc'[i].vals :
                          rpc'[i].vals[f] = towrite[RecBuf(r)][f][RecId(r)]
        /\ \A r \in Recs \ dirty(via') :
              /\ WritesOf(rpc', r) = {}
              /\ \A f \in DOMAIN towrite[RecBuf(r)] :
                    RecId(r) \in DOMAIN towrite[RecBuf(r)][f] =>
                       /\ RecId(r) \in DOMAIN towrite'[RecBuf(r)][f]
                       /\ towrite'[RecBuf(r)][f][RecId(r)] =
                            towrite[RecBuf(r)][f][RecId(r)]
        /\ dirtyHeap'[envs[via']._dirty] = {}

\* C3: one write call per dirty record, each with that record's own
\* staged values.
C3_OneWriteEach == [][C3_Step]_vars

\* A commit() that returned after two write calls, for the record r2 that
\* shares its buffer with r1 and for r3, while a value staged under the id
\* of r1, which was not dirty, is still in the shared buffer.
C3_Witness ==
    /\ op = "commit"
    /\ ~err
    /\ Len(rpc) = 2
    /\ WritesOf(rpc, "r2") # {}
    /\ WritesOf(rpc, "r3") # {}
    /\ DOMAIN Pending("r1") # {}
    /\ dirty(1) = {}

\* The records whose write call in a log succeeded, and the one whose
\* write call failed.
WrittenOk(log) == {r \in Recs : \E i \in WritesOf(log, r) : log[i].ok}

WriteFailed(log) == {r \in Recs : \E i \in WritesOf(log, r) : ~log[i].ok}

\* The authoritative cached values of a record.
CachedValues(r) ==
    [f \in DOMAIN values[RecBuf(r)] |-> values[RecBuf(r)][f][RecId(r)]]

\* C4, in a step: when the write of a record fails during commit(), the
\* authoritative cached values of that record are what they were before
\* the call.
C4_Step ==
    (op' = "commit" /\ err') =>
        \A r \in WriteFailed(rpc') : CachedValues(r)' = CachedValues(r)

\* C4: a failed remote write leaves the record's mutation unapplied.
C4_FailedWriteNotApplied == [][C4_Step]_vars

\* C5, in the step of a failing commit(): every record whose write did not
\* succeed is still dirty and keeps its staged values.
C5_StepFail ==
    (op' = "commit" /\ err') =>
        \A r \in dirty(via') \ WrittenOk(rpc') :
            /\ r \in dirtyHeap'[envs[via']._dirty]
            /\ Pending(r)' = Pending(r)

\* C5, in the step of the commit() that follows a failed one: every write
\* call it issues is for a record that was not written successfully and
\* carries the values that record had staged (those of the failed write
\* call for the record that failed), and if it returns it has issued one
\* for each of them.
C5_StepRetry ==
    (op = "commit" /\ err /\ op' = "commit") =>
        /\ \A r \in Recs : \A i \in WritesOf(rpc', r) :
              /\ r \notin WrittenOk(rpc)
              /\ rpc'[i].vals = IF r \in WriteFailed(rpc)
                                THEN rpc[Len(rpc)].vals ELSE Pending(r)
        /\ ~err' => \A r \in dirty(via') :
                       Cardinality(WritesOf(rpc', r)) = 1

\* C5: after a failed commit() the remainder is retried by the next one.
C5_RetryRemainder == [][C5_StepFail /\ C5_StepRetry]_vars

\* C6, in a step: no commit() sends a value that was staged before the
\* latest invalidate() and not assigned again since, and neither staging
\* nor invalidate() changes an authoritative cached value.
C6_Step ==
    /\ op' = "commit" =>
          \A r \in Recs : \A i \in WritesOf(rpc', r) :
              \A f \in DOMAIN rpc'[i].vals : <<r, f>> \notin stale
    /\ op' \in {"stage", "invalidate"} => values' = values

\* C6: invalidate() discards the staged values.
C6_InvalidateDiscards == [][C6_Step]_vars

\* C7, in a step: invalidate() leaves no record dirty, issues no remote
\* call, raises nothing and leaves the registry as it is; the commit()
\* called right after it issues no write call.
C7_Step ==
    /\ op' = "invalidate" =>
          /\ dirtyHeap'[envs[via']._dirty] = {}
          /\ rpc' = << >>
          /\ ~err'
          /\ regHeap' = regHeap
          /\ envs' = envs
    /\ (op = "invalidate" /\ op' = "commit") =>
          /\ rpc' = << >>
          /\ ~err'

\* C7: invalidate() empties the dirty set without writing.
C7_InvalidateNoWrite == [][C7_Step]_vars

\* An invalidate() called with values staged on two records or more, in an
\* environment whose registry holds proxies.
C7_Witness ==
    /\ op = "invalidate"
    /\ Cardinality({c[1] : c \in stale}) >= 2
    /\ \E r \in Recs : DOMAIN Pending(r) # {}
    /\ dirty(1) = {}
    /\ DOMAIN registry(1) # {}

\* C8, in a step: commit() raises exactly when a write fails, and that
\* write is the last it issues; no record is written twice; the records
\* written before are not dirty any more and hold the written values in
\* their cache; for the records not reached no write is issued, their
\* staged and cached values are untouched and they are still dirty.
C8_Step ==
    op' = "commit" =>
        LET log == rpc'
            was == dirty(via')
            now == dirtyHeap'[envs[via']._dirty]
        IN /\ err' <=> (\E i \in DOMAIN log : ~log[i].ok)
           /\ \A i \in DOMAIN log : i < Len(log) => log[i].ok
           /\ \A i \in DOMAIN log : log[i].method = "write"
           /\ \A r \in Recs : /\ Cardinality(WritesOf(log, r)) <= 1
                              /\ WritesOf(log, r) # {} => r \in was
           /\ \A r \in WrittenOk(log) :
                 /\ r \notin now
                 /\ \A i \in WritesOf(log, r) : \A f \in DOMAIN log[i].vals :
                       CachedValues(r)'[f] = log[i].vals[f]
           /\ \A r \in was \ (WrittenOk(log) \cup WriteFailed(log)) :
                 /\ err'
                 /\ r \in now
                 /\ Pending(r)' = Pending(r)
                 /\ CachedValues(r)' = CachedValues(r)

\* C8: commit() is best-effort and stops at the first failure.
C8_StopsOnFirstFailure == [][C8_Step]_vars

\* A commit() over three dirty records that raised at its second write:
\* one record written, one failed, one not reached.
C8_Witness ==
    /\ op = "commit"
    /\ err
    /\ Len(rpc) = 2
    /\ rpc[1].ok
    /\ ~rpc[2].ok
    /\ Cardinality(dirty(1)) = 2
    /\ \E r \in dirty(1) : WritesOf(rpc, r) = {} /\ DOMAIN Pending(r) # {}

\* A lookup that went to the server and built a class.
Built == op = "lookup" /\ rpc # << >> /\ rpc[1].ok

\* The names of the columns a complete proxy of a schema carries.
CompleteColumns(schema) == (DOMAIN schema \ FIELDS_RESERVED) \cup {"name"}

\* C11, the failing lookup: it raises after exactly one fields_get, the one
\* that failed, and leaves every registry and every cached class as they
\* were, with no entry for the model.
C11_StepFail ==
    (op' = "lookup" /\ err') =>
        /\ Len(rpc') = 1
        /\ rpc'[1].method = "fields_get"
        /\ rpc'[1].model = arg'
        /\ ~rpc'[1].ok
        /\ ret' = NoProxy
        /\ regHeap' = regHeap
        /\ classes' = classes
        /\ arg' \notin DOMAIN registry(1)'

\* C11, the lookups after it: while the model is absent a lookup of it goes
\* to the server again, once, and when that call succeeds the registry
\* holds the proxy returned, a class complete for the schema received.
C11_StepRetry ==
    (op' = "lookup" /\ arg' \notin DOMAIN registry(1)) =>
        /\ Len(rpc') = 1
        /\ rpc'[1].method = "fields_get"
        /\ rpc'[1].model = arg'
        /\ rpc'[1].ok =>
             /\ ~err'
             /\ ret' # NoProxy
             /\ registry(1)' = DictSet(registry(1), arg', ret')
             /\ ret' \in DOMAIN classes'
             /\ classes'[ret']._name = arg'
             /\ DOMAIN classes'[ret']._columns
                  = CompleteColumns(rpc'[1].reply)

\* C11: a failed schema fetch propagates, leaves the registry exactly as it
\* was, and a later lookup of the model fetches again and caches a complete
\* proxy.
C11_FailedFetchLeavesNoEntry == [][C11_StepFail /\ C11_StepRetry]_vars

\* A lookup of res.partner has just failed, with the entry of res.users in
\* the registry.
C11_Witness ==
    /\ op = "lookup"
    /\ err
    /\ arg = "res.partner"
    /\ DOMAIN registry(1) = {"res.users"}

\* C12, the deletion: it removes the entry of the model named and no other,
\* without a remote call; the proxy removed is one handed out before.
C12_StepEvict ==
    op' = "evict" =>
        /\ arg' \in DOMAIN registry(1)
        /\ registry(1)' = DictDel(registry(1), arg')
        /\ registry(1)[arg'] < nextProxy
        /\ nextProxy' = nextProxy
        /\ rpc' = << >>

\* C12, the lookup of an absent model: one fields_get, and the proxy
\* returned is a new class (its identity was never handed out before, so it
\* is not the one deleted), stored under the model; no other entry changes.
C12_StepMiss ==
    (op' = "lookup" /\ arg' \notin DOMAIN registry(1) /\ ~err') =>
        /\ Cardinality(SchemaCalls(rpc')) = 1
        /\ Len(rpc') = 1
        /\ ret' >= nextProxy
        /\ nextProxy' > ret'
        /\ \A M \in DOMAIN registry(1) : registry(1)[M] # ret'
        /\ registry(1)' = DictSet(registry(1), arg', ret')

\* C12, the lookups after that: the entry is returned with no remote call
\* and nothing is regenerated.
C12_StepHit ==
    (op' = "lookup" /\ arg' \in DOMAIN registry(1)) =>
        /\ rpc' = << >>
        /\ ret' = registry(1)[arg']
        /\ regHeap' = regHeap
        /\ nextProxy' = nextProxy

\* Every proxy a registry holds was handed out before.
C12_State == \A M \in DOMAIN registry(1) : registry(1)[M] < nextProxy

\* C12: deleting a model's entry and looking the model up again costs
\* exactly one new schema round-trip and yields a proxy that is not the
\* previous one; later lookups return the new proxy without a round-trip,
\* and the entries of other models are not regenerated.
C12_EvictRegenerates ==
    []C12_State /\ [][C12_StepEvict /\ C12_StepMiss /\ C12_StepHit]_vars

\* res.partner was given proxy 2, lost it, and has just been given proxy 3,
\* while res.users kept proxy 1.
C12_Witness ==
    /\ Built
    /\ arg = "res.partner"
    /\ ret = 3
    /\ registry(1) = [M \in Models |-> IF M = "res.partner" THEN 3 ELSE 1]

\* C15: a proxy built from a schema has no column under any reserved name,
\* even when the schema carries it, and has for every other field of the
\* schema the descriptor generated from that field's data.
C15_ReservedNamesSkipped ==
    Built =>
        LET schema == rpc[1].reply
            columns == classes[ret]._columns
        IN /\ \A f \in FIELDS_RESERVED : f \notin DOMAIN columns
           /\ \A f \in DOMAIN schema \ FIELDS_RESERVED :
                /\ f \in DOMAIN columns
                /\ columns[f] = generate_field(f, schema[f])

\* A schema with the reserved names "env" and "id" and the field "email".
C15_Witness ==
    /\ Built
    /\ DOMAIN rpc[1].reply = {"env", "id", "email"}
    /\ DOMAIN classes[ret]._columns = {"email", "name"}

\* C16: a proxy always has the column "name"; it is the synthetic read-only
\* text descriptor when the schema has no field "name", and the descriptor
\* generated from the schema's own "name" when it has one.
C16_NameColumn ==
    Built =>
        LET schema == rpc[1].reply
            columns == classes[ret]._columns
        IN /\ "name" \in DOMAIN columns
           /\ "name" \notin DOMAIN schema =>
                columns["name"] = [name |-> "name", type |-> "text",
                                   string |-> "Name", readonly |-> TRUE]
           /\ "name" \in DOMAIN schema =>
                columns["name"] = generate_field("name", schema["name"])

\* A schema without "name": the proxy carries the synthetic one next to the
\* schema's own field.
C16_Witness ==
    /\ Built
    /\ DOMAIN rpc[1].reply = {"email", "id"}
    /\ classes[ret]._columns["name"].readonly
    /\ classes[ret]._columns["name"].type = "text"

\* C13: between operations, every record in the dirty set of an environment
\* has at least one staged field value pending.
C13_DirtyHasPending ==
    \A e \in EnvIds : \A r \in dirty(e) : DOMAIN Pending(r) # {}

\* A render_report response without a usable payload: no "result" key, or a
\* "result" whose inner "result" is missing, null or empty.
Unusable(data) ==
    \/ "result" \notin DOMAIN data
    \/ "result" \notin DOMAIN data.result
    \/ data.result.result \in {None, ""}

\* C14: when the render_report call succeeded and its response has no usable
\* result payload, Report.download raises ValueError and returns no stream.
C14_UnusableRaisesValueError ==
    (op = "download" /\ rpc[1].ok /\ Unusable(out.data)) =>
        out.raised = "ValueError"

\* The rows of a model among those read, in the order read.
RowsOf(reports, model) ==
    LET OfModel(row) == row.model = model
    IN SelectSeq(reports, OfModel)

\* A row as a report descriptor: what is left without "model" and "id".
Descriptor(row) ==
    [name |-> row.name, report_name |-> row.report_name,
     report_type |-> row.report_type]

\* C18, the mapping: its keys are the models of the rows read, and each
\* key maps to the descriptors of its rows, all of them, once each, in the
\* order read; so no key maps to an empty list.
C18_State ==
    (op = "list" /\ ~err) =>
        LET reports == out.reports
            result == out.result
        IN /\ DOMAIN result = {reports[i].model : i \in DOMAIN reports}
           /\ \A M \in DOMAIN result :
                /\ result[M] # << >>
                /\ Len(result[M]) = Len(RowsOf(reports, M))
                /\ \A k \in DOMAIN result[M] :
                     result[M][k] = Descriptor(RowsOf(reports, M)[k])

\* C18, the frame: listing leaves the dirty sets and the record buffers as
\* they were and issues no write call.
C18_Step ==
    op' = "list" =>
        /\ dirtyHeap' = dirtyHeap
        /\ towrite' = towrite
        /\ values' = values
        /\ \A i \in DOMAIN rpc' : rpc'[i].method # "write"

\* C18: Report.list returns the rows read classified by model, each row
\* once, under its own model, in the order read, without "model" and "id",
\* with no empty list, and without a write call or a dirty-set change.
C18_ListClassifies == []C18_State /\ [][C18_Step]_vars

\* Three rows listed, the first and the last of one model, while a record is
\* dirty.
C18_Witness ==
    /\ op = "list"
    /\ ~err
    /\ Len(out.reports) = 3
    /\ out.reports[1].model = "sale.order"
    /\ out.reports[2].model = "account.invoice"
    /\ out.reports[3].model = "sale.order"
    /\ Len(out.result["sale.order"]) = 2
    /\ dirty(1) = {"r1"}

\* The positions of the xmlid_to_res_model_res_id calls in a log.
XmlIdCalls(log) ==
    {i \in DOMAIN log : log[i].method = "xmlid_to_res_model_res_id"}

\* C17, a ref whose xmlid call succeeded: that call is the first and the
\* only one of its kind; the lookup of the returned model comes after it,
\* with no further call when the model is cached and one fields_get for
\* that model when it is not; the record returned is the returned id
\* browsed on the proxy found, unless the schema fetch failed.
C17_StepFound ==
    (op' = "ref" /\ rpc'[1].ok) =>
        /\ XmlIdCalls(rpc') = {1}
        /\ arg' \in Models
        /\ IF arg' \in DOMAIN registry(1)
           THEN /\ Len(rpc') = 1
                /\ ~err'
                /\ regHeap' = regHeap
                /\ out'.record.proxy = registry(1)[arg']
           ELSE /\ Len(rpc') = 2
                /\ rpc'[2].method = "fields_get"
                /\ rpc'[2].model = arg'
                /\ err' = ~rpc'[2].ok
                /\ ~err' =>
                     /\ arg' \in DOMAIN registry(1)'
                     /\ out'.record.proxy = registry(1)'[arg']
        /\ ~err' => out'.record.id \in Ids
        /\ err' => out'.record = NoRecord

\* C17, a ref whose xmlid call failed: the error propagates after that one
\* call; no schema is fetched, no registry entry is made, nothing is
\* browsed.
C17_StepNotFound ==
    (op' = "ref" /\ ~rpc'[1].ok) =>
        /\ Len(rpc') = 1
        /\ XmlIdCalls(rpc') = {1}
        /\ err'
        /\ regHeap' = regHeap
        /\ classes' = classes
        /\ nextProxy' = nextProxy
        /\ out'.record = NoRecord

\* C17: ref issues exactly one xmlid_to_res_model_res_id call and only
\* afterwards looks the returned model up (at most one schema round-trip,
\* none if cached) and browses the returned id; when the xmlid call fails
\* the error propagates with no lookup, no registry entry and no browse.
C17_RefResolvesThenLooksUp == [][C17_StepFound /\ C17_StepNotFound]_vars

\* A ref resolved to record 2 of res.partner, which was not cached: the
\* xmlid call, then the fields_get.
C17_Witness ==
    /\ op = "ref"
    /\ ~err
    /\ Len(rpc) = 2
    /\ rpc[1].method = "xmlid_to_res_model_res_id"
    /\ rpc[2].method = "fields_get"
    /\ arg = "res.partner"
    /\ out.record = [proxy |-> registry(1)["res.partner"], id |-> 2]

\* No write call in a log.
NoWrite(log) == \A i \in DOMAIN log : log[i].method # "write"

\* C20, the registry side: a lookup, ref, user, lang or derivation leaves
\* every dirty set and every staged value as they were and issues no write;
\* the environment a derivation returns sees the dirty records of the one
\* it was derived from.
C20_StepRegistrySide ==
    (op' \in {"lookup", "ref", "user", "lang", "derive"}) =>
        /\ dirtyHeap' = dirtyHeap
        /\ \A e \in EnvIds : dirty(e)' = dirty(e)
        /\ towrite' = towrite
        /\ values' = values
        /\ NoWrite(rpc')
        /\ op' = "derive" =>
             dirtyHeap'[envs'[ret']._dirty] = dirty(parent'[ret'])

\* C20, the record side: commit() and invalidate() leave every registry
\* entry and every proxy class as they were and fetch no schema.
C20_StepRecordSide ==
    (op' \in {"commit", "invalidate"}) =>
        /\ regHeap' = regHeap
        /\ classes' = classes
        /\ nextProxy' = nextProxy
        /\ SchemaCalls(rpc') = {}

\* C20: lookup, ref, user, lang and environment(context) never add or
\* remove dirty-set members and never issue a write call; commit() and
\* invalidate() never add, remove or replace registry entries and never
\* issue a schema round-trip.
C20_OperationsKeepToTheirPart ==
    [][C20_StepRegistrySide /\ C20_StepRecordSide]_vars

\* A ref that fetched a schema while r1 was dirty, an environment having
\* been derived.
C20_Witness ==
    /\ op = "ref"
    /\ Len(rpc) = 2
    /\ ~err
    /\ dirty(1) = {"r1"}
    /\ Len(envs) = 2
    /\ dirty(2) = {"r1"}

\* Both threads have returned from a lookup of the same model.
BothDone ==
    /\ \A t \in Threads : thr[t].pc = "done"
    /\ thr[1].model = thr[2].model

\* The fields_get calls issued for a model, in a log.
SchemaCallsFor(log, model) == {i \in SchemaCalls(log) : log[i].model = model}

\* C19, the outcome of two lookups of one model: lookups that excluded each
\* other returned one proxy after one schema round-trip; callers that
\* received different proxies raced, each built a class of its own after a
\* round-trip of its own, and the registry holds one of the two classes.
C19_State ==
    BothDone =>
        /\ (~thr[1].raced /\ ~thr[2].raced) =>
             /\ thr[1].ret = thr[2].ret
             /\ Cardinality(SchemaCallsFor(rpc, thr[1].model)) = 1
        /\ thr[1].ret # thr[2].ret =>
             /\ thr[1].raced /\ thr[2].raced
             /\ Cardinality(SchemaCallsFor(rpc, thr[1].model)) = 2
             /\ thr[1].cls # NoProxy /\ thr[2].cls # NoProxy
             /\ thr[1].cls # thr[2].cls
             /\ registry(1)[thr[1].model] \in {thr[1].cls, thr[2].cls}

\* C19, the assignment of a thread that passed the test before another
\* thread's assignment: nothing is tested again, and the class the thread
\* built replaces the entry, whatever was there.
C19_StepStore ==
    \A t \in Threads :
        (thr[t].pc = "store" /\ thr'[t].pc = "return") =>
            /\ registry(1)'[thr[t].model] = thr[t].cls
            /\ thr[t].model \in DOMAIN registry(1) =>
                 registry(1)[thr[t].model] # registry(1)'[thr[t].model]

\* C19: the test and the assignment of a lookup are separate steps, so two
\* threads looking up one uncached model can each issue a schema round-trip
\* and receive different proxies, the later assignment overwriting the
\* entry; lookups that exclude each other return one proxy.
C19_CheckThenPopulateRaces == []C19_State /\ [][C19_StepStore]_vars

\* Both threads looked up res.partner; two round-trips were issued, thread 1
\* received proxy 1 and thread 2 proxy 2, which is the registry's entry.
C19_Witness ==
    /\ BothDone
    /\ thr[1].model = "res.partner"
    /\ Cardinality(SchemaCallsFor(rpc, "res.partner")) = 2
    /\ thr[1].ret = 1
    /\ thr[2].ret = 2
    /\ registry(1)["res.partner"] = 2

====
